---- MODULE Spec2Model ----
(***************************************************************************)
(* A state-machine model of the raspi_pen QR scanners:                     *)
(*   src/qr_scanner_system.py   QRScanner          (variant "system")      *)
(*   src/qr_scanner.py          QRScanner          (variant "basic")       *)
(*   src/qr_scanner_minimal.py  MinimalQRScanner   (variant "minimal")     *)
(* The three scripts share the debounce method should_process_qr and the   *)
(* shape of run(); they differ in how a frame is acquired and in what a    *)
(* failed acquisition does.                                                *)
(*                                                                         *)
(* Time is counted in whole seconds (time.time()); the clock never goes    *)
(* backwards and advances while the program is inside a blocking call.     *)
(***************************************************************************)
EXTENDS Integers, Sequences, FiniteSets, TLC

(* ---------------------------------------------------------------------- *)
(* Program constants                                                       *)
(* ---------------------------------------------------------------------- *)
debounce_time == 2
max_failed_frames == 10

(* ---------------------------------------------------------------------- *)
(* Bounds of the exploration                                               *)
(* ---------------------------------------------------------------------- *)
MaxTime == 3
MaxCalls == 6
MaxDevices == 2
MaxHandles == 4
MaxSymbols == 2

Payloads == {"X", "Y"}
None == "None"

\* at_decode while no frame is decoded.
NoDecode == [t |-> 0, last_qr_data |-> None, last_qr_time |-> 0]

\* The three scripts.
Variants == {"system", "basic", "minimal"}

\* What one cap.read() can deliver: a frame (ret = True), or a failure
\* (ret = False, frame None). OpenCV computes ret as "the image is not empty",
\* so ret = True never comes with a frame that is None or of size 0.
ReadResults == {"frame", "fail"}

\* The three approaches of start_camera, in the order of its list.
Approaches == <<"v4l2", "basic", "legacy">>

\* /dev/video<i> for the device indices the exploration covers
\* (check_camera_devices looks at 0..9).
DeviceIds == 0 .. (MaxDevices - 1)

\* The ascending list check_camera_devices builds from the devices present.
DeviceList(present) ==
    SelectSeq([i \in 1 .. MaxDevices |-> i - 1], LAMBDA d : d \in present)

\* All decode results of one frame: lists of at most MaxSymbols payloads.
SymbolLists == UNION {[1 .. n -> Payloads] : n \in 0 .. MaxSymbols}

VARIABLES
    variant,        \* which script runs: "system", "basic" or "minimal"
    pc,             \* where run() stands
    cap,            \* self.cap: 0 for None, else the index of a handle in handles
    handles,        \* every cv2.VideoCapture object created so far, in creation order
    selections,     \* number of start_camera calls begun so far
    recovering,     \* TRUE while start_camera runs on behalf of the main loop (line 295)
    devs,           \* available_devices of the running start_camera
    di,             \* position of device_idx in devs
    ai,             \* position of the running approach in Approaches
    attempt,        \* the probe loop's attempt (range(3)) in _try_v4l2_direct
    failed_frames,  \* run()'s local failed_frames
    qr_codes,       \* run()'s local qr_codes: the symbols decoded from the current frame
    qi,             \* number of symbols of qr_codes the for loop has dealt with
    at_decode,      \* the time and the debounce fields when qr_codes was decoded
    printed,        \* the reports printed in the current turn of the loop
    recovered,      \* before the decode: the N of "Camera recovered after N failed frames" (0: none)
    scn,            \* frames decoded so far, if they are the first frames of Scenario; else -1
    scn_reports,    \* the reports printed so far, while scn >= 0
    exit_cause,     \* why run() left its loop or returned ("none" while running)
    tools,          \* capture_image's local tools: the utilities found installed
    ti,             \* position of the running utility in CaptureMethods
    file,           \* capture.jpg in temp_dir: "none", or the utility that wrote it
    temp_dir,       \* whether the directory self.temp_dir exists
    last_qr_data,   \* self.last_qr_data: None or a payload
    last_qr_time,   \* self.last_qr_time
    now,            \* the value time.time() returns
    calls           \* direct calls of should_process_qr made so far, with their results

debVars == <<last_qr_data, last_qr_time>>
selVars == <<cap, handles, selections, recovering, devs, di, ai, attempt>>
turnVars == <<qr_codes, qi, at_decode, printed, recovered>>
scnVars == <<scn, scn_reports>>
runVars == <<variant, pc, failed_frames, exit_cause, turnVars, scnVars>>

minVars == <<tools, ti, file, temp_dir>>

vars == <<last_qr_data, last_qr_time, now, calls, selVars, runVars, minVars>>

(* ---------------------------------------------------------------------- *)
(* should_process_qr                                                       *)
(* ---------------------------------------------------------------------- *)

\* The test with "<=" in place of "<": the window closed one tick later.
DebouncedInclusive(data, time, qr_data, current_time) ==
    data = qr_data /\ current_time - time <= debounce_time

\* The test without its first conjunct: any payload inside the window.
DebouncedAnyPayload(data, time, qr_data, current_time) ==
    current_time - time < debounce_time

\* The test of the if statement: same payload, and still inside the window.
Debounced(data, time, qr_data, current_time) ==
    data = qr_data /\ current_time - time < debounce_time

\* should_process_qr without "self.last_qr_time = current_time".
should_process_qr_time_not_stored(data, time, qr_data, current_time) ==
    IF data = qr_data /\ current_time - time < debounce_time
    THEN [ret |-> FALSE, last_qr_data |-> data, last_qr_time |-> time]
    ELSE [ret |-> TRUE, last_qr_data |-> qr_data, last_qr_time |-> time]

\* should_process_qr storing the time before its test returns.
should_process_qr_time_always_stored(data, time, qr_data, current_time) ==
    IF data = qr_data /\ current_time - time < debounce_time
    THEN [ret |-> FALSE, last_qr_data |-> data, last_qr_time |-> current_time]
    ELSE [ret |-> TRUE, last_qr_data |-> qr_data, last_qr_time |-> current_time]

\* should_process_qr storing time 0 with a payload it had not stored.
should_process_qr_time_zeroed(data, time, qr_data, current_time) ==
    IF data = qr_data /\ current_time - time < debounce_time
    THEN [ret |-> FALSE, last_qr_data |-> data, last_qr_time |-> time]
    ELSE [ret |-> TRUE, last_qr_data |-> qr_data,
          last_qr_time |-> IF data = qr_data THEN current_time ELSE 0]

\* should_process_qr(qr_data) called at current_time on a scanner whose debounce
\* fields are (data, time): the value returned and the fields afterwards.
should_process_qr(data, time, qr_data, current_time) ==
    IF Debounced(data, time, qr_data, current_time)
    THEN [ret |-> FALSE, last_qr_data |-> data, last_qr_time |-> time]
    ELSE [ret |-> TRUE, last_qr_data |-> qr_data, last_qr_time |-> current_time]

\* __init__: the fields of a scanner object before run() is called.
InitScanner ==
    /\ variant \in Variants
    /\ last_qr_data = None
    /\ last_qr_time = 0
    /\ cap = 0
    /\ handles = <<>>
    /\ selections = 0
    /\ recovering = FALSE
    /\ devs = <<>>
    /\ di = 0
    /\ ai = 0
    /\ attempt = 0
    /\ failed_frames = 0
    /\ qr_codes = <<>>
    /\ qi = 0
    /\ at_decode = NoDecode
    /\ printed = <<>>
    /\ recovered = 0
    /\ scn = 0
    /\ scn_reports = <<>>
    /\ exit_cause = "none"
    /\ tools = {}
    /\ ti = 0
    /\ file = "none"
    /\ temp_dir = (variant = "minimal")
    /\ pc = "init"
    /\ now = 0
    /\ calls = <<>>

(* ---------------------------------------------------------------------- *)
(* The clock                                                               *)
(* ---------------------------------------------------------------------- *)

\* Places where run() is inside a blocking call (a device open or read, a
\* subprocess, a decode, a sleep) or not yet running. The for loop over the
\* symbols of one frame ("process") takes no time.
Blocking == {"init", "start_camera", "try_open", "try_probe", "check_tools",
             "capture", "try_tool", "read", "backoff", "decode", "sleep"}

\* The clock moves on.
AdvanceClock ==
    /\ pc \in Blocking
    /\ now < MaxTime
    /\ now' = now + 1
    /\ UNCHANGED <<debVars, calls, selVars, runVars, minVars>>

(* ---------------------------------------------------------------------- *)
(* should_process_qr called directly                                       *)
(* ---------------------------------------------------------------------- *)

\* A direct call should_process_qr(p) on a scanner object whose run() was not
\* started, as a unit test makes it. The entry logged keeps the fields the
\* call found (data0, time0).
CallShouldProcess(p) ==
    /\ pc = "init"
    /\ Len(calls) < MaxCalls
    /\ LET r == should_process_qr(last_qr_data, last_qr_time, p, now) IN
        /\ last_qr_data' = r.last_qr_data
        /\ last_qr_time' = r.last_qr_time
        /\ calls' = Append(calls, [p |-> p, t |-> now, ret |-> r.ret,
                                   data0 |-> last_qr_data, time0 |-> last_qr_time])
    /\ UNCHANGED <<now, selVars, runVars, minVars>>

(* ---------------------------------------------------------------------- *)
(* start_camera of qr_scanner_system.py                                    *)
(* ---------------------------------------------------------------------- *)

\* A new cv2.VideoCapture object for device d made by approach a in the
\* current start_camera call.
NewHandle(d, a, isOpened) ==
    [dev |-> d, approach |-> a, sel |-> selections, opened |-> isOpened,
     probe |-> "none", released |-> 0]

\* handle.release() on handle h.
Release(hs, h) == [hs EXCEPT ![h].released = @ + 1]

\* start_camera returns False and run() takes it for True.
ReturnFalseTakenForTrue ==
    /\ recovering' = FALSE
    /\ pc' = "read"
    /\ failed_frames' = 0
    /\ devs' = <<>> /\ di' = 0 /\ ai' = 0 /\ attempt' = 0
    /\ UNCHANGED exit_cause

\* start_camera returns False and run() goes on into its loop all the same.
ReturnFalseLoopGoesOn ==
    /\ recovering' = FALSE
    /\ pc' = "read"
    /\ exit_cause' = IF recovering THEN "restart_failed" ELSE "no_camera"
    /\ devs' = <<>> /\ di' = 0 /\ ai' = 0 /\ attempt' = 0
    /\ UNCHANGED failed_frames

\* start_camera returns False: at startup run() returns at once (no cleanup);
\* from the main loop it breaks out of the loop into the finally clause.
ReturnFalse ==
    /\ recovering' = FALSE
    /\ IF recovering
       THEN pc' = "cleanup" /\ exit_cause' = "restart_failed"
       ELSE pc' = "done" /\ exit_cause' = "no_camera"
    /\ devs' = <<>> /\ di' = 0 /\ ai' = 0 /\ attempt' = 0
    /\ UNCHANGED failed_frames

\* start_camera returns True and run() goes on without "failed_frames = 0".
ReturnTrueCountKept ==
    /\ recovering' = FALSE
    /\ pc' = "read"
    /\ devs' = <<>> /\ di' = 0 /\ ai' = 0 /\ attempt' = 0
    /\ UNCHANGED <<failed_frames, exit_cause>>

\* start_camera returns True: run() enters (or, with failed_frames = 0 and
\* without sleeping, continues) its loop.
ReturnTrue ==
    /\ recovering' = FALSE
    /\ pc' = "read"
    /\ failed_frames' = 0
    /\ devs' = <<>> /\ di' = 0 /\ ai' = 0 /\ attempt' = 0
    /\ UNCHANGED exit_cause

\* An approach returned False and the same approach is tried once more.
ApproachRetried ==
    /\ attempt' = 0
    /\ pc' = "try_release"
    /\ UNCHANGED <<devs, di, ai, recovering, failed_frames, exit_cause>>

\* An approach returned False: the next approach of this device, the next
\* device, or "All camera initialization attempts failed".
ApproachFailed ==
    IF ai < Len(Approaches)
    THEN /\ ai' = ai + 1
         /\ attempt' = 0
         /\ pc' = "try_release"
         /\ UNCHANGED <<devs, di, recovering, failed_frames, exit_cause>>
    ELSE IF di < Len(devs)
    THEN /\ di' = di + 1
         /\ ai' = 1
         /\ attempt' = 0
         /\ pc' = "try_release"
         /\ UNCHANGED <<devs, recovering, failed_frames, exit_cause>>
    ELSE ReturnFalse

\* start_camera begins: check_camera_devices lists the devices present.
StartCamera(present) ==
    /\ variant = "system"
    /\ pc = "start_camera"
    /\ selections' = selections + 1
    /\ IF present = {}
       THEN ReturnFalse
       ELSE /\ devs' = DeviceList(present)
            /\ di' = 1
            /\ ai' = 1
            /\ pc' = "try_release"
            /\ UNCHANGED <<attempt, recovering, failed_frames, exit_cause>>
    /\ UNCHANGED <<cap, handles>>
    /\ UNCHANGED <<variant, turnVars, scnVars, debVars, now, calls, minVars>>

\* A _try_* method whose head drops self.cap without releasing it.
TryReleaseSkipped ==
    /\ pc = "try_release"
    /\ cap' = 0
    /\ pc' = "try_open"
    /\ UNCHANGED <<handles, selections, recovering, devs, di, ai, attempt>>
    /\ UNCHANGED <<variant, failed_frames, exit_cause, turnVars, scnVars>>
    /\ UNCHANGED <<debVars, now, calls, minVars>>

\* The head of every _try_* method: "if self.cap: release; self.cap = None".
TryRelease ==
    /\ pc = "try_release"
    /\ IF cap # 0
       THEN handles' = Release(handles, cap) /\ cap' = 0
       ELSE UNCHANGED <<handles, cap>>
    /\ pc' = "try_open"
    /\ UNCHANGED <<selections, recovering, devs, di, ai, attempt>>
    /\ UNCHANGED <<variant, failed_frames, exit_cause, turnVars, scnVars>>
    /\ UNCHANGED <<debVars, now, calls, minVars>>

\* What cv2.VideoCapture(...) can do: return an object that is not opened, or
\* an opened one (OpenCV reports a device it cannot open through isOpened()).
OpenResults == {"closed", "opened"}

\* What one read of a frame test can do: the results of a read, or raise.
ProbeResults == ReadResults \cup {"raise"}

\* The body of a _try_* method after the release, with the constructor doing o.
\*   closed: "if not self.cap.isOpened(): return False";
\*   opened: the settings are applied (whatever the backend makes of them) and
\*           the frame test follows.
TryOpen(o) ==
    /\ pc = "try_open"
    /\ o \in OpenResults
    /\ Len(handles) < MaxHandles
    /\ handles' = Append(handles, NewHandle(devs[di], Approaches[ai], o = "opened"))
    /\ cap' = Len(handles) + 1
    /\ IF o = "closed"
       THEN ApproachFailed
       ELSE /\ attempt' = 0
            /\ pc' = "try_probe"
            /\ UNCHANGED <<recovering, devs, di, ai, failed_frames, exit_cause>>
    /\ UNCHANGED selections
    /\ UNCHANGED <<variant, turnVars, scnVars, debVars, now, calls, minVars>>

\* The frame test of an approach on the result r of one read:
\* _try_v4l2_direct wants ret, a frame and frame.size > 0; the other two want
\* ret and a frame. On the results a read can deliver the tests agree.
ProbeAccepts(approach, r) == r = "frame"

\* Number of reads the frame test of an approach makes at most.
ProbeAttempts(approach) == IF approach = "v4l2" THEN 3 ELSE 1

\* One read of the frame test, doing r:
\*   accepted: return True;
\*   not accepted with a further attempt left: sleep 0.1 s and read again;
\*   not accepted on the last attempt: return False ("rejected");
\*   the read raises: the except clause returns False ("raised").
TryProbe(r) ==
    /\ pc = "try_probe"
    /\ r \in ProbeResults
    /\ IF r # "raise" /\ ProbeAccepts(Approaches[ai], r)
       THEN /\ handles' = [handles EXCEPT ![cap].probe = "accepted"]
            /\ ReturnTrue
       ELSE IF r # "raise" /\ attempt + 1 < ProbeAttempts(Approaches[ai])
       THEN /\ attempt' = attempt + 1
            /\ UNCHANGED handles
            /\ UNCHANGED <<pc, recovering, devs, di, ai, failed_frames, exit_cause>>
       ELSE /\ handles' = [handles EXCEPT ![cap].probe =
                             IF r = "raise" THEN "raised" ELSE "rejected"]
            /\ ApproachFailed
    /\ UNCHANGED <<cap, selections>>
    /\ UNCHANGED <<variant, turnVars, scnVars, debVars, now, calls, minVars>>

(* ---------------------------------------------------------------------- *)
(* start_camera of qr_scanner.py                                           *)
(* ---------------------------------------------------------------------- *)

\* One cv2.VideoCapture(self.camera_index), doing o. An object that is not
\* opened raises RuntimeError inside the try; the except clause returns False
\* and run() returns at once. Nothing is released on that path.
BasicStartCamera(o) ==
    /\ variant = "basic"
    /\ pc = "start_camera"
    /\ o \in OpenResults
    /\ Len(handles) < MaxHandles
    /\ selections' = selections + 1
    /\ handles' = Append(handles, [NewHandle(0, "basic", o = "opened")
                                    EXCEPT !.sel = selections + 1])
    /\ cap' = Len(handles) + 1
    /\ IF o = "opened"
       THEN pc' = "read" /\ UNCHANGED exit_cause
       ELSE pc' = "done" /\ exit_cause' = "no_camera"
    /\ UNCHANGED <<recovering, devs, di, ai, attempt>>
    /\ UNCHANGED <<variant, failed_frames, turnVars, scnVars>>
    /\ UNCHANGED <<debVars, now, calls, minVars>>

(* ---------------------------------------------------------------------- *)
(* capture_image of qr_scanner_minimal.py                                  *)
(* ---------------------------------------------------------------------- *)

\* capture_methods, in the order of the list.
CaptureMethods == <<"libcamera-still", "raspistill", "fswebcam", "ffmpeg">>

\* The keys of check_camera_tools' dictionary.
ToolNames == {CaptureMethods[i] : i \in DOMAIN CaptureMethods}

\* What one subprocess.run of a utility can do: its exit (the timeout raises
\* TimeoutExpired) and whether it wrote the output file.
ToolResults == [exit : {"zero", "nonzero", "timeout"}, wrote : BOOLEAN]

\* run() of the minimal scanner begins: check_camera_tools finds the
\* utilities in installed; with none, run() returns at once.
CheckTools(installed) ==
    /\ variant = "minimal"
    /\ pc = "check_tools"
    /\ installed \subseteq ToolNames
    /\ IF installed = {}
       THEN pc' = "done" /\ exit_cause' = "no_camera"
       ELSE pc' = "capture" /\ UNCHANGED exit_cause
    /\ UNCHANGED <<variant, failed_frames, turnVars, scnVars>>
    /\ UNCHANGED <<selVars, debVars, now, calls, minVars>>

\* capture_image begins: it checks the utilities again.
CaptureImage(installed) ==
    /\ variant = "minimal"
    /\ pc = "capture"
    /\ installed \subseteq ToolNames
    /\ tools' = installed
    /\ ti' = 1
    /\ pc' = "try_tool"
    /\ UNCHANGED <<file, temp_dir>>
    /\ UNCHANGED <<variant, failed_frames, exit_cause, turnVars, scnVars>>
    /\ UNCHANGED <<selVars, debVars, now, calls>>

\* A capture judged by the exit status alone.
CaptureOkExitOnly(res, fileAfter) == res.exit = "zero"

\* capture_image_*: success is a zero exit and os.path.exists(output_path).
CaptureOk(res, fileAfter) == res.exit = "zero" /\ fileAfter # "none"

\* One turn of capture_image's for loop, the utility (if installed) doing res:
\* a utility that is not installed is skipped; a capture that succeeds returns
\* the path; after the last utility capture_image returns None.
TryTool(res) ==
    /\ pc = "try_tool"
    /\ res \in ToolResults
    /\ LET tool == CaptureMethods[ti]
           ran == tool \in tools
           fileAfter == IF ran /\ res.wrote THEN tool ELSE file
       IN  /\ file' = fileAfter
           /\ IF ran /\ CaptureOk(res, fileAfter)
              THEN pc' = "decode" /\ tools' = {} /\ ti' = 0
              ELSE IF ti < Len(CaptureMethods)
              THEN ti' = ti + 1 /\ UNCHANGED <<pc, tools>>
              ELSE pc' = "backoff" /\ tools' = {} /\ ti' = 0
    /\ UNCHANGED temp_dir
    /\ UNCHANGED <<variant, failed_frames, exit_cause, turnVars, scnVars>>
    /\ UNCHANGED <<selVars, debVars, now, calls>>

\* A cycle that ends without os.remove(image_path).
RemoveImageSkipped ==
    /\ pc = "remove"
    /\ pc' = "sleep"
    /\ UNCHANGED <<tools, ti, file, temp_dir>>
    /\ UNCHANGED <<variant, failed_frames, exit_cause, turnVars, scnVars>>
    /\ UNCHANGED <<selVars, debVars, now, calls>>

\* os.remove(image_path) at the end of a cycle.
RemoveImage ==
    /\ pc = "remove"
    /\ file' = "none"
    /\ pc' = "sleep"
    /\ UNCHANGED <<tools, ti, temp_dir>>
    /\ UNCHANGED <<variant, failed_frames, exit_cause, turnVars, scnVars>>
    /\ UNCHANGED <<selVars, debVars, now, calls>>

(* ---------------------------------------------------------------------- *)
(* run()                                                                   *)
(* ---------------------------------------------------------------------- *)

\* Where the loop of run() acquires its next frame.
Acquire == IF variant = "minimal" THEN "capture" ELSE "read"

\* Where run() goes once the symbols of a frame are dealt with.
AfterFrame == IF variant = "minimal" THEN "remove" ELSE "sleep"

\* run() is called.
Run ==
    /\ pc = "init"
    /\ pc' = IF variant = "minimal" THEN "check_tools" ELSE "start_camera"
    /\ UNCHANGED <<variant, failed_frames, exit_cause, turnVars, scnVars>>
    /\ UNCHANGED <<selVars, debVars, now, calls, minVars>>

\* The failure test of the system scanner's loop on the result r of a read:
\* "not ret or frame is None or frame.size == 0".
ReadFailed(r) == r # "frame"

\* The restart test one failure early.
TooManyFailedEarly(n) == n >= max_failed_frames - 1

\* The restart test of the system scanner's loop.
TooManyFailed(n) == n >= max_failed_frames

\* self.cap.read() in the loop of the system scanner, giving r, up to the
\* sleep or continue that ends a failed turn, or up to the decode.
ReadFrame(r) ==
    /\ variant = "system"
    /\ pc = "read"
    /\ r \in ReadResults
    /\ IF ReadFailed(r)
       THEN /\ failed_frames' = failed_frames + 1
            /\ IF TooManyFailed(failed_frames + 1)
               THEN pc' = "start_camera" /\ recovering' = TRUE
               ELSE pc' = "backoff" /\ UNCHANGED recovering
            /\ UNCHANGED recovered
       ELSE /\ recovered' = failed_frames
            /\ failed_frames' = 0
            /\ pc' = "decode"
            /\ UNCHANGED recovering
    /\ UNCHANGED <<cap, handles, selections, devs, di, ai, attempt>>
    /\ UNCHANGED <<variant, exit_cause, qr_codes, qi, at_decode, printed, scnVars>>
    /\ UNCHANGED <<debVars, now, calls, minVars>>

\* self.cap.read() in the loop of the basic scanner, giving r: "if not ret:
\* break".
BasicReadFrame(r) ==
    /\ variant = "basic"
    /\ pc = "read"
    /\ r \in ReadResults
    /\ IF r = "fail"
       THEN pc' = "cleanup" /\ exit_cause' = "read_failed"
       ELSE pc' = "decode" /\ UNCHANGED exit_cause
    /\ UNCHANGED <<variant, failed_frames, turnVars, scnVars>>
    /\ UNCHANGED <<selVars, debVars, now, calls, minVars>>

\* A failed acquisition after which the scanner forgets what it last reported.
BackoffForgetting ==
    /\ pc = "backoff"
    /\ pc' = Acquire
    /\ last_qr_data' = None
    /\ last_qr_time' = 0
    /\ UNCHANGED <<variant, failed_frames, exit_cause, turnVars, scnVars>>
    /\ UNCHANGED <<selVars, now, calls, minVars>>

\* time.sleep after a failed acquisition (0.5 s, or 2 s in the minimal scanner).
Backoff ==
    /\ pc = "backoff"
    /\ pc' = Acquire
    /\ UNCHANGED <<variant, failed_frames, exit_cause, turnVars, scnVars>>
    /\ UNCHANGED <<selVars, debVars, now, calls, minVars>>

\* The feed of the end-to-end scenario: decode results and their times.
Scenario ==
    << [syms |-> <<"X">>, t |-> 0], [syms |-> <<"X">>, t |-> 1],
       [syms |-> <<>>, t |-> 3], [syms |-> <<"Y">>, t |-> 3] >>

\* scn after a frame decoded to syms at time t.
ScenarioStep(k, syms, t) ==
    IF k >= 0 /\ k < Len(Scenario) /\ Scenario[k + 1] = [syms |-> syms, t |-> t]
    THEN k + 1
    ELSE -1

\* decode_qr_codes (decode_qr_codes_from_file) returns syms.
Decode(syms) ==
    /\ pc = "decode"
    /\ syms \in SymbolLists
    /\ qr_codes' = syms
    /\ qi' = 0
    /\ at_decode' = [t |-> now, last_qr_data |-> last_qr_data,
                     last_qr_time |-> last_qr_time]
    /\ scn' = ScenarioStep(scn, syms, now)
    /\ scn_reports' = IF scn' >= 0 THEN scn_reports ELSE <<>>
    /\ pc' = IF syms = <<>> THEN AfterFrame ELSE "process"
    /\ recovered' = 0
    /\ UNCHANGED <<variant, failed_frames, exit_cause, printed>>
    /\ UNCHANGED <<selVars, debVars, now, calls, minVars>>

\* The decoder (or the UTF-8 decoding of a payload) raises: the system and the
\* minimal scanner catch it and return []; the basic scanner has no handler,
\* the exception leaves the loop through the finally clause.
DecodeRaises ==
    /\ pc = "decode"
    /\ IF variant = "basic"
       THEN pc' = "cleanup" /\ exit_cause' = "exception"
       ELSE pc' = AfterFrame /\ UNCHANGED exit_cause
    /\ recovered' = 0
    /\ UNCHANGED <<variant, failed_frames, qr_codes, qi, at_decode, printed, scnVars>>
    /\ UNCHANGED <<selVars, debVars, now, calls, minVars>>

\* A loop that prints a report for every symbol.
ReportedAlways(log, ret, qr_data, t) == Append(log, [data |-> qr_data, t |-> t])

\* The report run() prints for a symbol, if should_process_qr returned ret.
Reported(log, ret, qr_data, t) ==
    IF ret THEN Append(log, [data |-> qr_data, t |-> t]) ELSE log

\* One turn of "for qr_info in qr_codes".
ProcessSymbol ==
    /\ pc = "process"
    /\ qi < Len(qr_codes)
    /\ LET qr_data == qr_codes[qi + 1]
           r == should_process_qr(last_qr_data, last_qr_time, qr_data, now)
       IN  /\ last_qr_data' = r.last_qr_data
           /\ last_qr_time' = r.last_qr_time
           /\ printed' = Reported(printed, r.ret, qr_data, now)
           /\ scn_reports' = IF scn >= 0
                             THEN Reported(scn_reports, r.ret, qr_data, now)
                             ELSE scn_reports
    /\ qi' = qi + 1
    /\ pc' = IF qi + 1 = Len(qr_codes) THEN AfterFrame ELSE "process"
    /\ UNCHANGED <<variant, failed_frames, exit_cause, qr_codes, at_decode,
                   recovered, scn>>
    /\ UNCHANGED <<selVars, now, calls, minVars>>

\* time.sleep at the end of a turn of the loop; the next turn starts afresh.
Sleep ==
    /\ pc = "sleep"
    /\ pc' = Acquire
    /\ qr_codes' = <<>>
    /\ qi' = 0
    /\ at_decode' = NoDecode
    /\ printed' = <<>>
    /\ UNCHANGED <<variant, failed_frames, exit_cause, recovered, scnVars>>
    /\ UNCHANGED <<selVars, debVars, now, calls, minVars>>

\* The places of run() inside its try statement.
InTry ==
    \/ pc \in {"read", "backoff", "decode", "process", "sleep",
               "capture", "try_tool", "remove"}
    \/ pc \in {"start_camera", "try_release", "try_open", "try_probe"} /\ recovering

\* The places of run() before its try statement.
BeforeTry ==
    \/ pc = "check_tools"
    \/ pc \in {"start_camera", "try_release", "try_open", "try_probe"} /\ ~recovering

\* KeyboardInterrupt (Ctrl+C): inside the try statement the except clause
\* catches it and the finally clause follows; before it, it leaves run().
\* The locals of the abandoned loop turn are never read again.
Interrupt ==
    /\ InTry \/ BeforeTry
    /\ exit_cause' = "interrupt"
    /\ pc' = IF InTry THEN "cleanup" ELSE "done"
    /\ recovering' = FALSE
    /\ devs' = <<>> /\ di' = 0 /\ ai' = 0 /\ attempt' = 0
    /\ tools' = {} /\ ti' = 0
    /\ qr_codes' = <<>> /\ qi' = 0 /\ at_decode' = NoDecode
    /\ printed' = <<>> /\ recovered' = 0
    /\ UNCHANGED <<cap, handles, selections, file, temp_dir>>
    /\ UNCHANGED <<variant, failed_frames, scnVars>>
    /\ UNCHANGED <<debVars, now, calls>>

\* cleanup(): "if self.cap: self.cap.release()", or shutil.rmtree(self.temp_dir).
Cleanup ==
    /\ pc = "cleanup"
    /\ pc' = "done"
    /\ IF variant = "minimal"
       THEN /\ temp_dir' = FALSE
            /\ file' = "none"
            /\ UNCHANGED handles
       ELSE /\ handles' = IF cap # 0 THEN Release(handles, cap) ELSE handles
            /\ UNCHANGED <<temp_dir, file>>
    /\ UNCHANGED <<cap, selections, recovering, devs, di, ai, attempt, tools, ti>>
    /\ UNCHANGED <<variant, failed_frames, exit_cause, turnVars, scnVars>>
    /\ UNCHANGED <<debVars, now, calls>>

(* ---------------------------------------------------------------------- *)
(* Specifications                                                          *)
(* ---------------------------------------------------------------------- *)

Init == InitScanner

\* A scanner run with a camera, utilities and a decoder that may do anything,
\* and an operator who may press Ctrl+C. The clock stands still: nothing
\* checked under Spec depends on the time.
Next ==
    \/ Run
    \/ \E present \in SUBSET DeviceIds : StartCamera(present)
    \/ TryRelease
    \/ \E o \in OpenResults : TryOpen(o)
    \/ \E r \in ProbeResults : TryProbe(r)
    \/ \E o \in OpenResults : BasicStartCamera(o)
    \/ \E installed \in SUBSET ToolNames : CheckTools(installed)
    \/ \E installed \in SUBSET ToolNames : CaptureImage(installed)
    \/ \E res \in ToolResults : TryTool(res)
    \/ RemoveImage
    \/ \E r \in ReadResults : ReadFrame(r)
    \/ \E r \in ReadResults : BasicReadFrame(r)
    \/ Backoff
    \/ \E syms \in SymbolLists : Decode(syms)
    \/ DecodeRaises
    \/ ProcessSymbol
    \/ Sleep
    \/ Interrupt
    \/ Cleanup

Spec == Init /\ [][Next]_vars

\* A scanner run with a camera and utilities that always deliver and a decoder
\* that never raises, under a running clock: the scan loop fed with decode
\* results at given times.
NextScan ==
    \/ Run
    \/ AdvanceClock
    \/ StartCamera({0})
    \/ TryRelease
    \/ TryOpen("opened")
    \/ TryProbe("frame")
    \/ BasicStartCamera("opened")
    \/ CheckTools(ToolNames)
    \/ CaptureImage(ToolNames)
    \/ TryTool([exit |-> "zero", wrote |-> TRUE])
    \/ RemoveImage
    \/ ReadFrame("frame")
    \/ BasicReadFrame("frame")
    \/ \E syms \in SymbolLists : Decode(syms)
    \/ ProcessSymbol
    \/ Sleep

SpecScan == Init /\ [][NextScan]_vars

\* A scanner run under a running clock with a camera that fails at will: one
\* device, /dev/video0, whose opens, test reads and reads succeed or fail, the
\* utilities and the decoder doing anything, Ctrl+C at any time.
NextTimed ==
    \/ Run
    \/ AdvanceClock
    \/ StartCamera({0})
    \/ TryRelease
    \/ \E o \in OpenResults : TryOpen(o)
    \/ \E r \in ReadResults : TryProbe(r)
    \/ \E o \in OpenResults : BasicStartCamera(o)
    \/ \E installed \in SUBSET ToolNames : CheckTools(installed)
    \/ \E installed \in SUBSET ToolNames : CaptureImage(installed)
    \/ \E res \in ToolResults : TryTool(res)
    \/ RemoveImage
    \/ \E r \in ReadResults : ReadFrame(r)
    \/ \E r \in ReadResults : BasicReadFrame(r)
    \/ Backoff
    \/ \E syms \in SymbolLists : Decode(syms)
    \/ DecodeRaises
    \/ ProcessSymbol
    \/ Sleep
    \/ Interrupt
    \/ Cleanup

SpecTimed == Init /\ [][NextTimed]_vars

\* A scanner object whose method should_process_qr is called directly.
NextCalls ==
    \/ AdvanceClock
    \/ \E p \in Payloads : CallShouldProcess(p)

SpecDebounce == Init /\ [][NextCalls]_vars
(* ---------------------------------------------------------------------- *)
(* Properties of should_process_qr (checked under SpecDebounce)            *)
(* ---------------------------------------------------------------------- *)

\* C1: on a fresh scanner, should_process_qr(p) at t1 and then at t2, with
\* t1 < t2, t2 - t1 < debounce_time and no call in between, returns True and
\* then False.
C1_RepeatInsideWindow ==
    ( /\ Len(calls) >= 2
      /\ calls[1].p = calls[2].p
      /\ calls[1].t < calls[2].t
      /\ calls[2].t - calls[1].t < debounce_time )
    => (calls[1].ret /\ ~calls[2].ret)

C1_Witness ==
    /\ Len(calls) = 2
    /\ calls[1].p = calls[2].p
    /\ calls[1].t = 1 /\ calls[2].t = 2
    /\ calls[1].ret /\ ~calls[2].ret

\* C2: on a fresh scanner, should_process_qr(p) at t1 and then at t2, with
\* t1 < t2, t2 - t1 >= debounce_time (the boundary included) and no call in
\* between, returns True both times.
C2_RepeatAfterWindow ==
    ( /\ Len(calls) >= 2
      /\ calls[1].p = calls[2].p
      /\ calls[1].t < calls[2].t
      /\ calls[2].t - calls[1].t >= debounce_time )
    => (calls[1].ret /\ calls[2].ret)

C2_Witness ==
    /\ Len(calls) = 2
    /\ calls[1].p = calls[2].p
    /\ calls[1].t = 1
    /\ calls[2].t - calls[1].t = debounce_time
    /\ calls[1].ret /\ calls[2].ret

\* C3: in every reachable debounce state should_process_qr(p) returns True when
\* p differs from last_qr_data, whatever the time; so a call with a payload
\* other than that of the call before it returns True, two distinct payloads
\* at one instant are both reported in either order, and an alternation
\* A, B, A, B, A, B is reported in full.
C3_NoCrossSuppression ==
    \A i \in DOMAIN calls :
        /\ calls[i].p # calls[i].data0 => calls[i].ret
        /\ (i > 1 /\ calls[i].p # calls[i - 1].p) => calls[i].ret
        /\ i > 1 => calls[i].data0 = calls[i - 1].p

C3_Witness ==
    /\ Len(calls) = 6
    /\ \A i \in 1 .. 6 :
        /\ calls[i].t = 1
        /\ calls[i].p = (IF i % 2 = 1 THEN "X" ELSE "Y")
        /\ calls[i].ret

\* The debounce fields a logged call left behind.
FieldsAfterCall(i) ==
    IF i < Len(calls)
    THEN <<calls[i + 1].data0, calls[i + 1].time0>>
    ELSE <<last_qr_data, last_qr_time>>

\* C4: should_process_qr(payload) at time now returns False iff payload equals
\* last_qr_data and now - last_qr_time < debounce_time; returning False it
\* leaves both fields as they were, returning True it sets them to
\* (payload, now).
C4_ReturnAndFields ==
    \A i \in DOMAIN calls :
        /\ ~calls[i].ret <=>
               (calls[i].p = calls[i].data0 /\
                calls[i].t - calls[i].time0 < debounce_time)
        /\ FieldsAfterCall(i) =
               (IF calls[i].ret
                THEN <<calls[i].p, calls[i].t>>
                ELSE <<calls[i].data0, calls[i].time0>>)

C4_Witness ==
    /\ Len(calls) >= 3
    /\ ~calls[2].ret
    /\ calls[2].t > calls[2].time0
    /\ calls[3].ret
    /\ calls[3].p = calls[2].p
    /\ calls[3].t > calls[2].t

(* ---------------------------------------------------------------------- *)
(* The scan loop end to end (checked under SpecScan)                       *)
(* ---------------------------------------------------------------------- *)

\* Whether the debounce rule lets payload p through at time t, the fields
\* being f.
Passes(f, p, t) == ~(p = f.data /\ t - f.time < debounce_time)

\* The debounce fields after the first n of syms were presented in order at
\* time t, the fields having been f0.
RECURSIVE FieldsAfter(_, _, _, _)
FieldsAfter(syms, n, f0, t) ==
    IF n = 0
    THEN f0
    ELSE LET f == FieldsAfter(syms, n - 1, f0, t) IN
         IF Passes(f, syms[n], t) THEN [data |-> syms[n], time |-> t] ELSE f

\* The reports due for the first n of syms: one for each symbol the debounce
\* rule lets through, in decode order.
RECURSIVE ExpectedReports(_, _, _, _)
ExpectedReports(syms, n, f0, t) ==
    IF n = 0
    THEN <<>>
    ELSE LET f == FieldsAfter(syms, n - 1, f0, t)
             rest == ExpectedReports(syms, n - 1, f0, t)
         IN  IF Passes(f, syms[n], t)
             THEN Append(rest, [data |-> syms[n], t |-> t])
             ELSE rest

\* The debounce fields when the current frame was decoded.
FieldsAtDecode == [data |-> at_decode.last_qr_data, time |-> at_decode.last_qr_time]

\* C5: the loop prints a report for exactly the decoded symbols for which the
\* debounce check returns True, in decode order; frames decoding to
\* [X], [X], [], [Y] at times 0, 1, 3, 3 give exactly the reports X at 0 and
\* Y at 3.
C5_ReportsFollowDebounce ==
    /\ pc \in {"process", "sleep", "remove"} =>
          /\ printed = ExpectedReports(qr_codes, qi, FieldsAtDecode, at_decode.t)
          /\ [data |-> last_qr_data, time |-> last_qr_time] =
                 FieldsAfter(qr_codes, qi, FieldsAtDecode, at_decode.t)
    /\ pc \in {"sleep", "remove"} => qi = Len(qr_codes)
    /\ (scn = Len(Scenario) /\ pc \in {"sleep", "remove"}) =>
          scn_reports = << [data |-> "X", t |-> 0], [data |-> "Y", t |-> 3] >>

C5_Witness ==
    /\ scn = Len(Scenario)
    /\ pc = "sleep"
    /\ Len(scn_reports) = 2
    /\ now = 3

(* ---------------------------------------------------------------------- *)
(* The loop of the system scanner under failures (checked under Spec)      *)
(* ---------------------------------------------------------------------- *)

\* C6: the loop of the system scanner calls start_camera exactly when the
\* count of consecutive failed reads reaches max_failed_frames, never with
\* fewer; a good read after fewer failures sets the count to 0, makes no
\* re-selection and does not stop the loop.
C6_ReselectionAtThreshold ==
    [][ variant = "system" =>
          /\ (pc = "read" /\ pc' = "start_camera") =>
                 failed_frames' = max_failed_frames
          /\ (pc = "read" /\ failed_frames' >= max_failed_frames) =>
                 (pc' = "start_camera" /\ recovering')
          /\ (pc = "read" /\ failed_frames' = failed_frames + 1
                 /\ failed_frames' < max_failed_frames) =>
                 (pc' = "backoff" /\ selections' = selections
                  /\ exit_cause' = "none")
          /\ (selections' # selections /\ selections > 0) =>
                 failed_frames = max_failed_frames
          /\ (pc = "read" /\ pc' = "decode") =>
                 /\ failed_frames < max_failed_frames
                 /\ recovered' = failed_frames
                 /\ failed_frames' = 0
                 /\ selections' = selections
                 /\ exit_cause' = "none"
      ]_vars

C6_Witness ==
    /\ variant = "system"
    /\ pc = "decode"
    /\ recovered = max_failed_frames - 1
    /\ failed_frames = 0
    /\ selections = 1
    /\ exit_cause = "none"

\* C7: when start_camera, called after max_failed_frames consecutive failed
\* reads, succeeds, the loop runs on: the count is 0, the loop has not
\* stopped, and the next reads come from the handle just accepted.
C7_RecoveryResumes ==
    [][ (variant = "system" /\ recovering /\ pc' = "read") =>
          /\ failed_frames = max_failed_frames
          /\ failed_frames' = 0
          /\ ~recovering'
          /\ exit_cause' = "none"
          /\ cap' # 0
          /\ handles'[cap'].probe = "accepted"
          /\ handles'[cap'].released = 0
          /\ handles'[cap'].sel = selections'
          /\ selections' >= 2
      ]_vars

C7_Witness ==
    /\ variant = "system"
    /\ selections >= 2
    /\ pc = "sleep"
    /\ printed # <<>>
    /\ failed_frames = 0
    /\ exit_cause = "none"

\* C8: in no scanner a failed acquisition by itself stops the loop: the loop
\* leaves an acquisition for the end of run() only on Ctrl+C (a re-selection
\* that finds no camera ends the loop from inside start_camera).
C8_FailedAcquireNeverStops ==
    [][ (pc \in {"read", "try_tool"} /\ pc' \in {"cleanup", "done"}) =>
            exit_cause' = "interrupt"
      ]_vars

(* ---------------------------------------------------------------------- *)
(* start_camera and the handles (checked under Spec)                       *)
(* ---------------------------------------------------------------------- *)

\* The position of an approach in the list of start_camera.
ApproachIndex(a) == CHOOSE i \in DOMAIN Approaches : Approaches[i] = a

\* The place of a handle's candidate in the preference order.
Rank(h) == h.dev * Len(Approaches) + ApproachIndex(h.approach)

\* The places of run() inside its loop, outside start_camera.
InLoop == pc \in {"read", "backoff", "decode", "process", "sleep"}

\* C9: start_camera tries its candidates in preference order (devices
\* ascending, for each V4L2-direct, basic, legacy), takes the first whose frame
\* test passes and opens none after it; each handle it rejects is released
\* exactly once before the next is created. After [A not opened, B opened and
\* rejected, C accepted] self.cap is C's handle and A and B were each released
\* once.
C9_SelectionOrderAndRelease ==
    variant = "system" =>
    /\ \A i, j \in DOMAIN handles :
          i < j =>
             /\ handles[i].sel <= handles[j].sel
             /\ handles[i].sel = handles[j].sel =>
                   /\ Rank(handles[i]) < Rank(handles[j])
                   /\ handles[i].probe # "accepted"
    /\ \A i \in DOMAIN handles :
          /\ (i = 1 \/ (i > 1 /\ handles[i - 1].sel # handles[i].sel)) =>
                handles[i].approach = Approaches[1]
          /\ (i > 1 /\ handles[i - 1].sel = handles[i].sel) =>
                IF handles[i - 1].dev = handles[i].dev
                THEN ApproachIndex(handles[i].approach) =
                         ApproachIndex(handles[i - 1].approach) + 1
                ELSE /\ handles[i - 1].approach = Approaches[Len(Approaches)]
                     /\ handles[i].approach = Approaches[1]
          /\ handles[i].probe = "accepted" => handles[i].opened
          /\ handles[i].released <= 1
          /\ i < Len(handles) => handles[i].released = 1
    /\ InLoop =>
          /\ cap = Len(handles)
          /\ handles[cap].probe = "accepted"
          /\ handles[cap].released = 0

C9_Witness ==
    /\ variant = "system"
    /\ pc = "read"
    /\ Len(handles) = 3
    /\ \A i \in 1 .. 3 : handles[i].sel = 1
    /\ ~handles[1].opened
    /\ handles[2].opened /\ handles[2].probe = "rejected"
    /\ handles[3].probe = "accepted"
    /\ cap = 3
    /\ handles[1].released = 1 /\ handles[2].released = 1
    /\ handles[3].released = 0

\* The handles created and not yet released.
Unreleased == {i \in DOMAIN handles : handles[i].released = 0}

\* C10: at most one handle is created and not yet released at any time,
\* through the first selection, every re-selection and the loop; no
\* VideoCapture is created while an earlier one is unreleased.
C10_AtMostOneOpenHandle ==
    /\ Cardinality(Unreleased) <= 1
    /\ Unreleased \subseteq {Len(handles)}
    /\ cap # 0 => cap = Len(handles)
    /\ pc = "try_open" => Unreleased = {}

C10_Witness ==
    /\ variant = "system"
    /\ selections >= 2
    /\ Len(handles) >= 3
    /\ pc = "read"
    /\ Unreleased = {Len(handles)}
    /\ handles[1].opened /\ handles[1].released = 1

(* ---------------------------------------------------------------------- *)
(* The end of run(): resources (checked under Spec)                        *)
(* ---------------------------------------------------------------------- *)

\* run() has returned, or an exception has left it.
Returned == pc = "done"

\* The handles that were opened and are not released.
OpenUnreleased ==
    {i \in DOMAIN handles : handles[i].opened /\ handles[i].released = 0}

\* The reasons for which run() ends other than Ctrl+C.
FatalCauses == {"no_camera", "restart_failed", "read_failed", "exception"}

\* C11: once run() has ended for a fatal reason (startup selection failed, no
\* capture utility is installed, a re-selection failed, an exception left the
\* loop) no handle is left unreleased and the scratch directory is gone.
C11_FatalExitReleasesAll ==
    (Returned /\ exit_cause \in FatalCauses) =>
        (OpenUnreleased = {} /\ ~temp_dir)

\* C12: once run() has ended on Ctrl+C, wherever it arrived, every handle is
\* released and the scratch directory is gone.
C12_InterruptReleasesAll ==
    (Returned /\ exit_cause = "interrupt") =>
        /\ Cardinality(OpenUnreleased) = 0
        /\ temp_dir = FALSE

(* ---------------------------------------------------------------------- *)
(* The pace of the loop and decode errors (checked under Spec)             *)
(* ---------------------------------------------------------------------- *)

\* The places where the loop of run() acquires a frame.
AcquirePlaces == {"read", "capture"}

\* The places of run() inside a time.sleep of its loop.
SleepPlaces == {"sleep", "backoff"}

\* run() comes to its first acquisition: from the startup start_camera or
\* from the tool check of the minimal scanner.
FirstAcquire ==
    /\ ~recovering
    /\ pc \in {"try_probe", "start_camera", "check_tools"}

\* C13: whenever the loop comes to an acquisition after an earlier one, it
\* comes from a time.sleep: no two acquisitions follow each other without a
\* delay, also after a re-selection that succeeded.
C13_SleepBetweenAcquires ==
    [][ (pc' \in AcquirePlaces /\ pc \notin AcquirePlaces) =>
            (pc \in SleepPlaces \/ FirstAcquire)
      ]_vars

\* The places run() can be in after a decode of the loop that did not end run().
AfterDecode == {"process", "sleep", "remove"}

\* C14: in every scanner a decode that raises counts as no symbols: the loop
\* goes on (only Ctrl+C ends it there), nothing is printed and the debounce
\* fields stay.
C14_DecodeErrorIsNoSymbols ==
    [][ (pc = "decode" /\ pc' # "decode") =>
           \/ exit_cause' = "interrupt"
           \/ /\ pc' \in AfterDecode
              /\ exit_cause' = "none"
              /\ (pc' # "process" =>
                     /\ printed' = printed
                     /\ last_qr_data' = last_qr_data
                     /\ last_qr_time' = last_qr_time)
      ]_vars

(* ---------------------------------------------------------------------- *)
(* Failed selections (checked under Spec)                                  *)
(* ---------------------------------------------------------------------- *)

\* The places of run() inside start_camera or the startup tool check.
SelectionPlaces == {"start_camera", "try_release", "try_open", "try_probe",
                    "check_tools"}

\* The places of run() inside a turn of its loop.
TickPlaces == {"read", "capture", "try_tool", "backoff", "decode", "process",
               "remove", "sleep"}

\* The reasons for which a selection ends run().
SelectionFailures == {"no_camera", "restart_failed"}

\* C15: a failed selection ends run(). At startup (no device, no utility, or
\* every candidate failed) run() returns before any turn of the loop: nothing
\* was acquired, decoded or reported. From the loop, a failed re-selection
\* stops the loop, and nothing is acquired, decoded or reported after it.
C15_SelectionFailureIsTerminal ==
    [][ /\ (exit_cause = "none" /\ exit_cause' = "no_camera") =>
              /\ ~recovering
              /\ pc \in SelectionPlaces
              /\ pc' = "done"
              /\ failed_frames = 0 /\ scn = 0 /\ printed = <<>>
              /\ last_qr_data = None /\ file = "none"
        /\ (exit_cause = "none" /\ exit_cause' = "restart_failed") =>
              /\ recovering
              /\ pc \in SelectionPlaces
              /\ pc' = "cleanup"
        /\ exit_cause \in SelectionFailures =>
              /\ pc' \in {"cleanup", "done"}
              /\ exit_cause' = exit_cause
              /\ UNCHANGED <<failed_frames, turnVars, scnVars, debVars>>
              /\ UNCHANGED <<file, selections, cap>>
              /\ Len(handles') = Len(handles)
        /\ pc' \in TickPlaces => exit_cause' = "none"
        /\ (pc \in TickPlaces /\ pc' \in SelectionPlaces) => recovering'
        /\ (recovering /\ ~recovering') => pc' \in {"read", "cleanup"}
      ]_vars

C15_Witness ==
    /\ variant = "system"
    /\ Returned
    /\ exit_cause = "restart_failed"
    /\ selections = 2
    /\ failed_frames = max_failed_frames
    /\ Unreleased = {}

(* ---------------------------------------------------------------------- *)
(* The frame test of a candidate (checked under Spec)                      *)
(* ---------------------------------------------------------------------- *)

\* The number of test reads a candidate is due before it is given up.
ProbesDue == 3

\* C16: whichever approach opened it, a candidate is given up for want of a
\* frame only after ProbesDue test reads: a read that delivers no frame is
\* followed by another until the third.
C16_ThreeProbesEach ==
    [][ (pc = "try_probe" /\ cap # 0 /\ handles'[cap].probe = "rejected") =>
            attempt + 1 = ProbesDue
      ]_vars

(* ---------------------------------------------------------------------- *)
(* The minimal scanner: capture_image and the scratch file (under Spec)    *)
(* ---------------------------------------------------------------------- *)

\* C17: capture_image goes through libcamera-still, raspistill, fswebcam,
\* ffmpeg in this order, starting from the first at every call; a utility
\* that is not installed is not run; a utility that fails is followed by the
\* next; the path is returned at the first success (zero exit and the file
\* there), None only after the last utility.
C17_CaptureFallbackOrder ==
    [][ variant = "minimal" =>
          /\ (pc = "capture" /\ pc' = "try_tool") => ti' = 1
          /\ (pc = "try_tool" /\ pc' = "try_tool") =>
                (ti' = ti + 1 /\ tools' = tools)
          /\ (pc = "try_tool" /\ CaptureMethods[ti] \notin tools) =>
                (file' = file /\ pc' # "decode")
          /\ (pc = "try_tool" /\ pc' = "decode") =>
                /\ CaptureMethods[ti] \in tools
                /\ file' # "none"
                /\ file' \in {file, CaptureMethods[ti]}
          /\ (pc = "try_tool" /\ pc' = "backoff") =>
                ti = Len(CaptureMethods)
          /\ (pc = "try_tool" /\ file' # file) =>
                (CaptureMethods[ti] \in tools /\ file' = CaptureMethods[ti])
      ]_vars

C17_Witness ==
    /\ variant = "minimal"
    /\ pc = "try_tool"
    /\ ti = 3
    /\ "libcamera-still" \in tools
    /\ "raspistill" \notin tools
    /\ file = "none"
    /\ scn # 0

DebounceWritten ==
    last_qr_data' # last_qr_data \/ last_qr_time' # last_qr_time

\* C19: last_qr_data and last_qr_time are written by should_process_qr alone,
\* when it returns True for the symbol at hand; failed reads and captures, the
\* failure count, start_camera called from the loop and decode errors leave
\* them as they are, so what was reported before a restart is still what a
\* symbol is compared with after it.
C19_OnlyShouldProcessWrites ==
    [][ /\ DebounceWritten =>
              /\ pc = "process"
              /\ qi < Len(qr_codes)
              /\ ~(last_qr_data = qr_codes[qi + 1] /\
                   now - last_qr_time < debounce_time)
              /\ last_qr_data' = qr_codes[qi + 1]
              /\ last_qr_time' = now
        /\ (selections' # selections \/ failed_frames' # failed_frames
              \/ recovering \/ recovering' \/ exit_cause' # exit_cause
              \/ pc \in {"backoff", "decode", "try_tool"}) =>
              ~DebounceWritten
      ]_vars

C19_Witness ==
    /\ variant = "system"
    /\ selections >= 2
    /\ pc = "read"
    /\ failed_frames = 0
    /\ last_qr_data = "X"
    /\ last_qr_time = 1
    /\ now = 3

\* C20: the clock never going backwards, every write of last_qr_time sets it
\* to its old value or a later one: it never goes back, to 0 or elsewhere.
C20_LastTimeNeverDecreases ==
    [][ /\ now' >= now
        /\ last_qr_time' >= last_qr_time
        /\ last_qr_time' <= now'
      ]_vars

C20_Witness ==
    /\ pc = "sleep"
    /\ at_decode.last_qr_time = 1
    /\ last_qr_time = 3
    /\ at_decode.last_qr_data = last_qr_data
    /\ selections >= 2

(* ---------------------------------------------------------------------- *)
(* Where Ctrl+C takes effect (checked under Spec)                          *)
(* ---------------------------------------------------------------------- *)

\* The step is the one on which Ctrl+C ends the run.
Interrupted == exit_cause = "none" /\ exit_cause' = "interrupt"

\* The top of the loop: the turn before has ended, the next has not acquired.
TickBoundary == pc \in AcquirePlaces /\ qr_codes = <<>> /\ tools = {}

\* C21: the stop signal takes effect at the top of the loop only: a read, a
\* capture subprocess, a decode or the loop over the symbols of a frame, once
\* begun, is finished before the loop stops.
C21_StopAtTickBoundaryOnly ==
    [][ (pc \in TickPlaces /\ Interrupted) => TickBoundary ]_vars

(* ---------------------------------------------------------------------- *)
(* The window runs from the last report (checked under SpecDebounce)       *)
(* ---------------------------------------------------------------------- *)

\* The latest call before call j that returned True (the first call does).
LastReport(j) ==
    CHOOSE i \in 1 .. (j - 1) :
        calls[i].ret /\ \A k \in (i + 1) .. (j - 1) : ~calls[k].ret

\* Call j presents the payload of the last report, as every call since did.
SamePayloadSince(j) ==
    \A k \in LastReport(j) .. j : calls[k].p = calls[j].p

\* C22: a suppressed call does not move last_qr_time, so the window runs from
\* the last report: of a payload presented call after call, a call is reported
\* exactly when its time is debounce_time or more after the last report; two
\* reports in a row are never closer, and the suppression ends with the first
\* call that late.
C22_WindowFromLastReport ==
    \A j \in DOMAIN calls :
        (j > 1 /\ SamePayloadSince(j)) =>
            /\ calls[j].ret <=>
                   calls[j].t - calls[LastReport(j)].t >= debounce_time
            /\ calls[j].time0 = calls[LastReport(j)].t

C22_Witness ==
    /\ Len(calls) = 3
    /\ \A i \in 1 .. 3 : calls[i].p = "X" /\ calls[i].t = i
    /\ calls[1].ret /\ ~calls[2].ret /\ calls[3].ret

(* ---------------------------------------------------------------------- *)
(* Whose file a successful capture returns (checked under Spec)            *)
(* ---------------------------------------------------------------------- *)

\* capture_image returns the path: the utility at hand has succeeded.
CaptureSucceeds == variant = "minimal" /\ pc = "try_tool" /\ pc' = "decode"

\* C23: when capture_image returns the path, the file there is the one the
\* succeeding utility wrote: a file another utility left behind, in this call
\* or in an earlier cycle, never stands in for it.
C23_FileIsTheWinners ==
    [][ CaptureSucceeds => file' = CaptureMethods[ti] ]_vars

(* ---------------------------------------------------------------------- *)
(* The handle the loop reads from (checked under Spec)                     *)
(* ---------------------------------------------------------------------- *)

\* The step is a self.cap.read() of the loop of the system scanner.
LoopRead ==
    /\ variant = "system"
    /\ pc = "read"
    /\ pc' \in {"decode", "backoff", "start_camera"}

\* C24: every read of the loop of the system scanner is made on the handle the
\* latest selection accepted, opened and not released; never on a handle that
\* was rejected, did not open or was released, and never after cleanup.
C24_ReadsFromAcceptedHandle ==
    [][ /\ LoopRead =>
              /\ cap # 0
              /\ cap = Len(handles)
              /\ handles[cap].opened
              /\ handles[cap].probe = "accepted"
              /\ handles[cap].released = 0
              /\ handles[cap].sel = selections
              /\ exit_cause = "none"
        /\ (variant = "system" /\ pc \in {"cleanup", "done"}) =>
              /\ pc' \in {"cleanup", "done"}
              /\ ~LoopRead
      ]_vars

C24_Witness ==
    /\ variant = "system"
    /\ pc = "decode"
    /\ selections = 2
    /\ Len(handles) >= 3
    /\ cap = Len(handles)
    /\ handles[1].probe = "accepted" /\ handles[1].released = 1
    /\ handles[2].sel = 2 /\ handles[2].probe # "accepted"
    /\ handles[cap].probe = "accepted" /\ handles[cap].released = 0
====
